---- MODULE Spec2Model ----
(***************************************************************************)
(* Model of notion_update.py: a run reads the ledger schema, maps its      *)
(* columns, queries the rows and, row by row, resolves the identifier,     *)
(* fetches the quote, obtains the exchange rate and writes the update.     *)
(*                                                                         *)
(* Text is a sequence of one-character strings, so that lower(), strip(),  *)
(* split() and the regular expressions act on characters as in the code.   *)
(* A character outside ASCII is written as its code point ("U+4EF7").      *)
(* Prices and quantities are whole numbers; a rate is in thousandths      *)
(* (1000 is 1.0, 915 is 0.915).                                            *)
(***************************************************************************)
EXTENDS Integers, Sequences, FiniteSets

VARIABLES
    ledger,         \* the external store: [schema, pages] (environment)
    token,          \* NOTION_TOKEN after clean_env_var
    pc,             \* position of main()
    PROP_MAP,       \* global property map
    entries,        \* main: entries
    idx,            \* main: index of the row of the for loop (1-based)
    hkd_rate,       \* main: hkd_rate
    success_count,  \* main: success_count
    actual_code,    \* main: actual_code
    raw_price,      \* main: raw_price
    rate,           \* main: rate
    calls,          \* every request sent to an external service, in order
    visited,        \* the rows the for loop has taken, in order
    written,        \* number of row writes the ledger store accepted
    arg,            \* input of the function under test (function harnesses)
    ret             \* its result

vars == <<ledger, token, pc, PROP_MAP, entries, idx, hkd_rate, success_count,
          actual_code, raw_price, rate, calls, visited, written, arg, ret>>

(***************************************************************************)
(* Bounds of the model.                                                    *)
(***************************************************************************)
MaxRows == 2
MaxCands == 2
MaxFields == 8

(***************************************************************************)
(* Python values.                                                          *)
(***************************************************************************)
None == [some |-> FALSE]
Some(v) == [some |-> TRUE, val |-> v]

QUOTE == "\""

Min(S) == CHOOSE x \in S : \A y \in S : x <= y
Max(S) == CHOOSE x \in S : \A y \in S : x >= y

UpperAlpha == <<"A","B","C","D","E","F","G","H","I","J","K","L","M",
                "N","O","P","Q","R","S","T","U","V","W","X","Y","Z">>
LowerAlpha == <<"a","b","c","d","e","f","g","h","i","j","k","l","m",
                "n","o","p","q","r","s","t","u","v","w","x","y","z">>

lower_char(c) ==
    IF \E k \in 1..26 : UpperAlpha[k] = c
    THEN LowerAlpha[CHOOSE k \in 1..26 : UpperAlpha[k] = c]
    ELSE c

upper_char(c) ==
    IF \E k \in 1..26 : LowerAlpha[k] = c
    THEN UpperAlpha[CHOOSE k \in 1..26 : LowerAlpha[k] = c]
    ELSE c

\* str.lower()
lower(s) == [k \in 1..Len(s) |-> lower_char(s[k])]

\* str.upper()
upper(s) == [k \in 1..Len(s) |-> upper_char(s[k])]

IsSpace(c) == c \in {" ", "\t", "\n", "\r"}

\* str.strip()
strip(s) ==
    LET keep == {k \in 1..Len(s) : ~IsSpace(s[k])}
    IN  IF keep = {} THEN <<>> ELSE SubSeq(s, Min(keep), Max(keep))

\* str.startswith(p)
startswith(s, p) == Len(p) <= Len(s) /\ SubSeq(s, 1, Len(p)) = p

\* sub in s
contains(s, sub) ==
    \E k \in 0..(Len(s) - Len(sub)) : SubSeq(s, k + 1, k + Len(sub)) = sub

\* str.split(sep), sep one character
RECURSIVE split(_, _)
split(s, sep) ==
    LET at == {k \in 1..Len(s) : s[k] = sep}
    IN  IF at = {} THEN <<s>>
        ELSE <<SubSeq(s, 1, Min(at) - 1)>>
             \o split(SubSeq(s, Min(at) + 1, Len(s)), sep)

\* re.search(r'"([^"]+)"', content): the first non-empty quoted run
re_search_quoted(content) ==
    LET n == Len(content)
        starts == {k \in 1..n :
                     /\ content[k] = QUOTE
                     /\ k + 1 <= n
                     /\ content[k + 1] # QUOTE
                     /\ \E j \in (k + 2)..n : content[j] = QUOTE}
    IN  IF starts = {} THEN None
        ELSE LET k == Min(starts)
                 j == Min({m \in (k + 2)..n : content[m] = QUOTE})
             IN  Some(SubSeq(content, k + 1, j - 1))

Digits == <<"0","1","2","3","4","5","6","7","8","9">>
IsDigit(c) == \E k \in 1..10 : Digits[k] = c
DigitVal(c) == (CHOOSE k \in 1..10 : Digits[k] = c) - 1

RECURSIVE to_int(_)
to_int(s) ==
    IF s = <<>> THEN 0
    ELSE 10 * to_int(SubSeq(s, 1, Len(s) - 1)) + DigitVal(s[Len(s)])

\* float(text): surrounding whitespace and one sign are accepted; anything
\* else than digits raises ValueError (None here).
float(text) ==
    LET t == strip(text)
        signed == t # <<>> /\ t[1] \in {"-", "+"}
        body == IF signed THEN Tail(t) ELSE t
    IN  IF body = <<>> \/ \E k \in 1..Len(body) : ~IsDigit(body[k])
        THEN None
        ELSE Some(IF signed /\ t[1] = "-" THEN 0 - to_int(body) ELSE to_int(body))

(***************************************************************************)
(* get_stock_price_sina(code): reply is the quote service's answer,        *)
(* [ok |-> FALSE] when the request or the decoding raised.                 *)
(***************************************************************************)
is_hk_case_sensitive(code) == startswith(code, <<"h","k">>)

\* lines 141-142: code = code.lower(); is_hk = code.startswith("hk")
is_hk_of(code) == startswith(lower(code), <<"h","k">>)

get_stock_price_sina(code, reply) ==
    LET is_hk == is_hk_of(code)
    IN  IF ~reply.ok THEN None
        ELSE LET match == re_search_quoted(reply.text)
             IN  IF ~match.some THEN None
                 ELSE LET data == split(match.val, ",")
                      IN  IF Len(data) < 4 THEN None
                          ELSE IF is_hk
                               THEN IF Len(data) > 6 THEN float(data[7]) ELSE None
                               ELSE float(data[4])

(***************************************************************************)
(* fuzzy_map_properties(props): props is the schema, a sequence of         *)
(* [key, type] in the store's column order (a dict: keys are distinct).    *)
(***************************************************************************)
mapping_rules == <<
    [key |-> "NAME", synonyms |->
        << <<"I","n","v","e","s","t","m","e","n","t">>, <<"N","a","m","e">>, <<"U+540D","U+79F0">>, <<"U+6295","U+8D44","U+9879","U+76EE">>, <<"U+80A1","U+7968","U+540D","U+79F0">> >>],
    [key |-> "PRICE", synonyms |->
        << <<"C","u","r","r","e","n","t"," ","P","r","i","c","e">>, <<"P","r","i","c","e">>, <<"U+4EF7","U+683C">>, <<"U+73B0","U+4EF7">>, <<"U+5F53","U+524D","U+4EF7","U+683C">> >>],
    [key |-> "CODE", synonyms |->
        << <<"S","t","o","c","k","C","o","d","e">>, <<"U+4EE3","U+7801">>, <<"C","o","d","e">>, <<"U+80A1","U+7968","U+4EE3","U+7801">>, <<"S","e","c","u","r","i","t","y"," ","C","o","d","e">> >>],
    [key |-> "UPDATE", synonyms |->
        << <<"U","p","d","a","t","e","A","t">>, <<"U","p","d","a","t","e","d">>, <<"U+65F6","U+95F4">>, <<"U+66F4","U+65B0","U+65F6","U+95F4">>, <<"L","a","s","t"," ","U","p","d","a","t","e","d">> >>],
    [key |-> "BUY_PRICE", synonyms |->
        << <<"B","u","y"," ","P","r","i","c","e">>, <<"U+4E70","U+5165","U+4EF7">>, <<"U+6210","U+672C","U+4EF7">>, <<"C","o","s","t"," ","P","r","i","c","e">> >>],
    [key |-> "QUANTITY", synonyms |->
        << <<"Q","u","a","n","t","i","t","y">>, <<"U+6570","U+91CF">>, <<"U+6301","U+4ED3","U+91CF">> >>],
    [key |-> "ROI_DETAILS", synonyms |->
        << <<"R","O","I"," ","D","e","t","a","i","l","s">>, <<"U+76C8","U+4E8F","U+8BE6","U+60C5">>, <<"U+72B6","U+6001">>, <<"R","O","I"," ","D","e","t","a","i","l">> >>],
    [key |-> "EXCHANGE_RATE", synonyms |->
        << <<"E","x","c","h","a","n","g","e"," ","R","a","t","e">>, <<"U+6C47","U+7387">>, <<"R","a","t","e">> >> ] >>

\* actual_keys.get(low): the dict {k.strip().lower(): k}; of two columns with
\* the same cleaned key the later one stays.
actual_keys(props, low) ==
    LET hits == {k \in 1..Len(props) : lower(strip(props[k].key)) = low}
    IN  IF hits = {} THEN None ELSE Some(props[Max(hits)].key)

\* the column one rule maps to: its first synonym that is a cleaned key,
\* and for NAME the first column of type title when no synonym is
match_rule(rule, props) ==
    LET hits == {s \in 1..Len(rule.synonyms) :
                   actual_keys(props, lower(rule.synonyms[s])).some}
        titles == {k \in 1..Len(props) : props[k].type = "title"}
    IN  IF hits # {}
        THEN actual_keys(props, lower(rule.synonyms[Min(hits)]))
        ELSE IF rule.key = "NAME" /\ titles # {}
             THEN Some(props[Min(titles)].key)
             ELSE None

fuzzy_map_properties(props) ==
    LET found == {r \in 1..Len(mapping_rules) :
                    match_rule(mapping_rules[r], props).some}
        rule_of(key) == mapping_rules[CHOOSE r \in found : mapping_rules[r].key = key]
    IN  [key \in {mapping_rules[r].key : r \in found} |->
            match_rule(rule_of(key), props).val]

(***************************************************************************)
(* get_stock_code_by_name(name): reply is the suggestion service's answer. *)
(***************************************************************************)
\* re.sub(r'[A|H]$', '', name, flags=re.IGNORECASE).strip()
clean_name_of(name) ==
    IF name # <<>> /\ upper_char(name[Len(name)]) \in {"A", "|", "H"}
    THEN strip(SubSeq(name, 1, Len(name) - 1))
    ELSE strip(name)

is_h_hint_of(name) == \E k \in 1..Len(name) : upper(name)[k] = "H"
is_a_hint_of(name) == \E k \in 1..Len(name) : upper(name)[k] = "A"

\* lines 82-87: the candidates of the quoted line
RECURSIVE parse_items(_)
parse_items(items) ==
    IF items = <<>> THEN <<>>
    ELSE LET parts == split(Head(items), ",")
         IN  (IF Len(parts) > 3
              THEN << [name |-> parts[1], code |-> parts[4]] >>
              ELSE <<>>) \o parse_items(Tail(items))

is_hk_code(code) == startswith(lower(code), <<"h","k">>)
is_a_code(code) == startswith(lower(code), <<"s","h">>) \/ startswith(lower(code), <<"s","z">>)

\* lines 94-104
keeps(is_h_hint, is_a_hint, r) ==
    /\ ~(is_h_hint /\ ~is_hk_code(r.code))
    /\ ~(is_a_hint /\ ~is_a_code(r.code))
    /\ ~(~(is_h_hint \/ is_a_hint) /\ ~(is_hk_code(r.code) \/ is_a_code(r.code)))

filter_results(name, results) ==
    LET Keep(r) == keeps(is_h_hint_of(name), is_a_hint_of(name), r)
        filtered == SelectSeq(results, Keep)
    IN  IF filtered = <<>> THEN results ELSE filtered

\* lines 107-113
pick_code(clean_name, filtered) ==
    LET hits == {k \in 1..Len(filtered) : contains(filtered[k].name, clean_name)}
        final_code == IF hits = {} THEN None ELSE Some(filtered[Min(hits)].code)
    IN  IF ~final_code.some \/ final_code.val = <<>>
        THEN filtered[1].code
        ELSE final_code.val

get_stock_code_by_name(name, reply) ==
    IF ~reply.ok THEN None
    ELSE LET match == re_search_quoted(reply.text)
         IN  IF ~match.some THEN None
             ELSE LET results == parse_items(split(match.val, ";"))
                  IN  IF results = <<>> THEN None
                      ELSE Some(pick_code(clean_name_of(name),
                                          filter_results(name, results)))

(***************************************************************************)
(* get_hkd_cny_rate(): reply is the rate service's answer.                 *)
(***************************************************************************)
FallbackRate == 915

\* rate = 1.0
UnitRate == 1000

get_hkd_cny_rate(reply) ==
    IF ~reply.ok THEN FallbackRate
    ELSE LET match == re_search_quoted(reply.text)
         IN  IF ~match.some THEN FallbackRate
             ELSE LET data == split(match.val, ",")
                  IN  IF Len(data) < 2 \/ ~float(data[2]).some
                      THEN FallbackRate
                      ELSE float(data[2]).val

(***************************************************************************)
(* fetch_notion_stocks(): reply is the store's answer to the row query,    *)
(* [ok |-> FALSE] when the request raised. A page is [id, properties], its *)
(* properties a function from column name to                               *)
(* [type, title, rich_text, number]: title and rich_text are sequences of  *)
(* plain_text runs, number is None when null or not there.                 *)
(***************************************************************************)
RECURSIVE join(_)
join(runs) == IF runs = <<>> THEN <<>> ELSE Head(runs) \o join(Tail(runs))

plain_text_of(props, key) ==
    IF key.some /\ key.val \in DOMAIN props
    THEN IF props[key.val].type = "title"
         THEN join(props[key.val].title)
         ELSE join(props[key.val].rich_text)
    ELSE <<>>

\* float(props.get(key, {}).get("number", 0) or 0) if key else 0
number_of(props, key) ==
    IF key.some /\ key.val \in DOMAIN props /\ props[key.val].number.some
    THEN props[key.val].number.val
    ELSE 0

\* PROP_MAP.get(field)
prop_get(pm, field) == IF field \in DOMAIN pm THEN Some(pm[field]) ELSE None

fetch_notion_stocks(pm, reply) ==
    IF ~reply.ok \/ reply.status # 200 THEN <<>>
    ELSE [k \in 1..Len(reply.results) |->
            LET page == reply.results[k]
            IN  [page_id |-> page.id,
                 code |-> strip(plain_text_of(page.properties, prop_get(pm, "CODE"))),
                 name |-> strip(plain_text_of(page.properties, prop_get(pm, "NAME"))),
                 buy_price |-> number_of(page.properties, prop_get(pm, "BUY_PRICE")),
                 quantity |-> number_of(page.properties, prop_get(pm, "QUANTITY"))]]

(***************************************************************************)
(* update_notion_page(page_id, display_price, code, buy_price, quantity,   *)
(* rate): the request it sends.                                            *)
(***************************************************************************)
Abs(n) == IF n < 0 THEN 0 - n ELSE n

\* n / d rounded to the nearest integer, a tie to the even one (n >= 0, d > 0).
\* Python rounds the binary float, which may fall on either side of a decimal
\* tie; the amounts used below produce no tie.
round_div(n, d) ==
    LET q == n \div d
        r == n % d
    IN  IF 2 * r > d \/ (2 * r = d /\ q % 2 = 1) THEN q + 1 ELSE q

RECURSIVE int_to_str(_)
int_to_str(n) ==
    IF n < 10 THEN <<Digits[n + 1]>>
    ELSE int_to_str(n \div 10) \o <<Digits[(n % 10) + 1]>>

\* the ',' option: the integer part in groups of three digits
RECURSIVE grouped(_)
grouped(n) ==
    IF n < 1000 THEN int_to_str(n)
    ELSE grouped(n \div 1000) \o <<",">>
         \o <<Digits[((n \div 100) % 10) + 1], Digits[((n \div 10) % 10) + 1],
              Digits[(n % 10) + 1]>>

\* f"{x:.2f}" and f"{x:,.2f}" of the float of sign bit neg and magnitude
\* num / den hundredths; a negative zero prints its sign.
format_2f(neg, num, den, comma) ==
    LET h == round_div(num, den)
    IN  (IF neg THEN <<"-">> ELSE <<>>)
        \o (IF comma THEN grouped(h \div 100) ELSE int_to_str(h \div 100))
        \o <<".", Digits[((h \div 10) % 10) + 1], Digits[(h % 10) + 1]>>

sign_positive_only(profit) == IF profit > 0 THEN <<"+">> ELSE <<>>

\* line 235
sign_of(profit) == IF profit >= 0 THEN <<"+">> ELSE <<>>

\* lines 231-244: display_price, buy_price, quantity in units, rate in
\* thousandths. The sign bit of a float product is the exclusive or of its
\* factors' sign bits, also when the product is zero.
roi_details(display_price, buy_price, quantity, rate_arg) ==
    LET profit_per_share_native == display_price - buy_price
        nonneg == profit_per_share_native >= 0
        total_neg == (profit_per_share_native < 0) # ((quantity < 0) # (rate_arg < 0))
        sign == sign_of(profit_per_share_native)
        status_text ==
            sign
            \o format_2f(profit_per_share_native < 0,
                         Abs(profit_per_share_native) * 10000, buy_price, FALSE)
            \o <<"%"," ","(">> \o sign
            \o format_2f(total_neg,
                         Abs(profit_per_share_native * quantity * rate_arg), 10, TRUE)
            \o <<" ","C","N","Y",")">>
    IN  [content |-> status_text, color |-> IF nonneg THEN "red" ELSE "green"]

\* the canonical fields update_notion_page writes, in the order it sets them
update_order == <<"PRICE", "UPDATE", "EXCHANGE_RATE", "CODE", "ROI_DETAILS">>

update_props(pm, display_price, code, buy_price, quantity, rate_arg) ==
    LET set == {k \in 1..Len(update_order) :
                  /\ update_order[k] \in DOMAIN pm
                  /\ update_order[k] = "CODE" => (code.some /\ code.val # <<>>)
                  /\ update_order[k] = "ROI_DETAILS" => buy_price > 0}
        value(field) ==
            CASE field = "PRICE" -> [number |-> display_price]
              [] field = "UPDATE" -> [date |-> "now"]
              [] field = "EXCHANGE_RATE" -> [number |-> rate_arg]
              [] field = "CODE" -> [rich_text |-> code.val]
              [] field = "ROI_DETAILS" ->
                    [rich_text |-> roi_details(display_price, buy_price, quantity, rate_arg)]
    IN  [col \in {pm[update_order[k]] : k \in set} |->
            value(update_order[Max({k \in set : pm[update_order[k]] = col})])]

update_notion_page(pm, page_id, display_price, code, buy_price, quantity, rate_arg) ==
    [page_id |-> page_id,
     properties |-> update_props(pm, display_price, code, buy_price, quantity, rate_arg)]

(***************************************************************************)
(* The environment of a run: the ledger and what the services answer.      *)
(***************************************************************************)
Col(key, type, role) == [key |-> key, type |-> type, role |-> role]

SchemaFull == <<
    Col(<<"N","a","m","e">>, "title", "name"),
    Col(<<"C","u","r","r","e","n","t"," ","P","r","i","c","e">>, "number", "price"),
    Col(<<"S","t","o","c","k","C","o","d","e">>, "rich_text", "code"),
    Col(<<"U","p","d","a","t","e","A","t">>, "date", "updated"),
    Col(<<"B","u","y"," ","P","r","i","c","e">>, "number", "buy"),
    Col(<<"Q","u","a","n","t","i","t","y">>, "number", "qty"),
    Col(<<"R","O","I"," ","D","e","t","a","i","l","s">>, "rich_text", "roi"),
    Col(<<"E","x","c","h","a","n","g","e"," ","R","a","t","e">>, "number", "rate") >>

\* a price column written in another case and padded, a title column that
\* no NAME synonym names, no CODE column
SchemaBare == <<
    Col(<<"A","s","s","e","t">>, "title", "name"),
    Col(<<" ","P","R","I","C","E"," ">>, "number", "price"),
    Col(<<"U+6210","U+672C","U+4EF7">>, "number", "buy") >>

\* columns that only resemble a PRICE synonym
SchemaNoPrice == <<
    Col(<<"N","a","m","e">>, "title", "name"),
    Col(<<"P","r","i","c","i","n","g">>, "number", "price"),
    Col(<<"C","o","d","e">>, "rich_text", "code"),
    Col(<<"C","o","s","t"," ","P","r","i","c","e">>, "number", "buy"),
    Col(<<"Q","u","a","n","t","i","t","y">>, "number", "qty") >>

SchemaNoPriceZh == <<
    Col(<<"U+540D","U+79F0">>, "title", "name"),
    Col(<<"U+4EF7">>, "number", "price"),
    Col(<<"U+4EE3","U+7801">>, "rich_text", "code") >>

Schemas == {SchemaFull, SchemaBare, SchemaNoPrice, SchemaNoPriceZh, <<>>}

\* what a user keeps in a row: the runs of the name and of the code, the
\* buy price and the quantity (None: the cell is empty)
Seed(name, code, buy, qty) == [name |-> name, code |-> code, buy |-> buy, qty |-> qty]

Seeds == {
    Seed(<< <<"T","e","n","c","e","n","t">> >>, << <<"h","k","0","0","7","0","0">> >>, Some(300), Some(100)),
    Seed(<< <<"B","a","n","k">> >>, << <<" ","S","H","6","0","0","0","0","0">> >>, None, Some(5)),
    Seed(<< <<"T","e","n">>, <<"c","e","n","t"," ","H"," ">> >>, <<>>, Some(400), Some(0)),
    Seed(<<>>, << <<" ">> >>, Some(10), None) }

property_of(col, seed) ==
    [type |-> col.type,
     title |-> IF col.type # "title" THEN <<>>
               ELSE IF col.role = "name" THEN seed.name
               ELSE IF col.role = "code" THEN seed.code ELSE <<>>,
     rich_text |-> IF col.type # "rich_text" THEN <<>>
                   ELSE IF col.role = "name" THEN seed.name
                   ELSE IF col.role = "code" THEN seed.code ELSE <<>>,
     number |-> IF col.type # "number" THEN None
                ELSE IF col.role = "buy" THEN seed.buy
                ELSE IF col.role = "qty" THEN seed.qty ELSE None]

page_of(id, schema, seed) ==
    [id |-> id,
     properties |-> [key \in {schema[k].key : k \in 1..Len(schema)} |->
        property_of(schema[CHOOSE k \in 1..Len(schema) : schema[k].key = key], seed)]]

SeedLists == UNION {[1..n -> Seeds] : n \in 0..MaxRows}

Ledgers == {[schema |-> schema,
             pages |-> [k \in 1..Len(seeds) |-> page_of(k, schema, seeds[k])]] :
            schema \in Schemas, seeds \in SeedLists}

\* db_props: the schema as [key, type]
db_props_of(schema) ==
    [k \in 1..Len(schema) |-> [key |-> schema[k].key, type |-> schema[k].type]]

Raised == [ok |-> FALSE]
Text(t) == [ok |-> TRUE, text |-> t]

SuggestReplies == {
    Raised,
    Text(<<"v","a","r"," ","s","u","g","g","e","s","t","v","a","l","u","e","=","\"","\"",";">>),
    Text(<<"v","a","r"," ","s","u","g","g","e","s","t","v","a","l","u","e","=","\"","T","e","n","c","e","n","t"," ","A","D","R",",","4","1",",","t","c","e","h","y",",","t","c","e","h","y",",","T","e","n","c","e","n","t"," ","A","D","R",";","T","e","n","c","e","n","t",",","3","1",",","0","0","7","0","0",",","h","k","0","0","7","0","0",",","T","e","n","c","e","n","t",";","T","e","n","c","e","n","t"," ","M","u","s","i","c",",","1","1",",","6","0","0","0","0","1",",","s","h","6","0","0","0","0","1",",","T","e","n","c","e","n","t"," ","M","u","s","i","c","\"",";">>) }

QuoteReplies == {
    Raised,
    Text(<<"v","a","r"," ","h","q","_","s","t","r","=","\"","\"",";">>),
    Text(<<"v","a","r"," ","h","q","_","s","t","r","=","\"","T","E","N","C","E","N","T",",","T","e","n","c","e","n","t",",","3","5","0",",","3","5","2",",","3","5","5",",","3","4","9",",","3","5","1",",","1",",","2","\"",";">>) }

RateReplies == {
    Raised,
    Text(<<"v","a","r"," ","h","q","_","s","t","r","_","f","x","_","s","h","k","d","c","n","y","=","\"","1","0",":","0","0",":","0","0",",","9","2","0",",","9","2","1","\"",";">>) }

QueryReplies(l) == {
    Raised,
    [ok |-> TRUE, status |-> 401, results |-> <<>>],
    [ok |-> TRUE, status |-> 200, results |-> l.pages] }

PatchOutcomes == {"ok", "rejected", "raised"}

(***************************************************************************)
(* main(), cut at its requests. calls records each request when it is      *)
(* sent; visited records the rows the for loop has taken.                  *)
(***************************************************************************)
NoArg == [none |-> TRUE]

InitRun ==
    /\ ledger \in Ledgers
    /\ token \in BOOLEAN
    /\ pc = "start"
    /\ PROP_MAP = << >>
    /\ entries = << >>
    /\ idx = 0
    /\ hkd_rate = None
    /\ success_count = 0
    /\ actual_code = None
    /\ raw_price = None
    /\ rate = None
    /\ calls = << >>
    /\ visited = << >>
    /\ written = 0
    /\ arg = NoArg
    /\ ret = NoArg

price_mapped_unchecked(pm) == TRUE

\* verify_database() returns "PRICE" in PROP_MAP
price_mapped(pm) == "PRICE" \in DOMAIN pm

\* line 284 with verify_database(): the database is read by its id, or found
\* by name when the id is AUTO or the read is refused, or not found at all
VerifyDatabase ==
    /\ pc = "start"
    /\ IF ~token
       THEN /\ pc' = "done"
            /\ UNCHANGED <<PROP_MAP, calls>>
       ELSE \E found \in BOOLEAN :
            /\ calls' = Append(calls, [svc |-> "schema", row |-> 0])
            /\ IF ~found
               THEN /\ pc' = "done"
                    /\ UNCHANGED PROP_MAP
               ELSE /\ PROP_MAP' = fuzzy_map_properties(db_props_of(ledger.schema))
                    /\ pc' = IF price_mapped(PROP_MAP') THEN "fetch" ELSE "done"
    /\ UNCHANGED <<ledger, token, entries, idx, hkd_rate, success_count,
                   actual_code, raw_price, rate, visited, written, arg, ret>>

\* lines 287-289
FetchEntries ==
    /\ pc = "fetch"
    /\ \E reply \in QueryReplies(ledger) :
          entries' = fetch_notion_stocks(PROP_MAP, reply)
    /\ calls' = Append(calls, [svc |-> "query", row |-> 0])
    /\ idx' = 1
    /\ pc' = "row"
    /\ UNCHANGED <<ledger, token, PROP_MAP, hkd_rate, success_count,
                   actual_code, raw_price, rate, visited, written, arg, ret>>

\* the for loop takes its next row; the locals of the row before are dead
NextRow ==
    /\ idx' = idx + 1
    /\ pc' = "row"
    /\ actual_code' = None
    /\ raw_price' = None
    /\ rate' = None

\* line 295 (continue) and the else of line 298: the row is given up
SkipRowStopsRun ==
    /\ pc' = "done"
    /\ UNCHANGED <<idx, actual_code, raw_price, rate>>

SkipRow == NextRow

code_to_write_always(entry, code) == Some(code)

\* code=(actual_code if not entry["code"] else None)
code_to_write(entry, code) == IF entry.code = <<>> THEN Some(code) ELSE None

\* lines 291-295: actual_code = code or get_stock_code_by_name(name)
ResolveCode ==
    /\ pc = "row"
    /\ idx <= Len(entries)
    /\ visited' = Append(visited, idx)
    /\ LET entry == entries[idx]
       IN  IF entry.code # <<>>
           THEN /\ actual_code' = Some(entry.code)
                /\ pc' = "quote"
                /\ UNCHANGED <<calls, idx, raw_price, rate>>
           ELSE \E reply \in SuggestReplies :
                LET found == get_stock_code_by_name(entry.name, reply)
                IN  /\ calls' = Append(calls,
                          [svc |-> "suggest", row |-> idx,
                           key |-> clean_name_of(entry.name), result |-> found])
                    /\ IF found.some /\ found.val # <<>>
                       THEN /\ actual_code' = found
                            /\ pc' = "quote"
                            /\ UNCHANGED <<idx, raw_price, rate>>
                       ELSE SkipRow
    /\ UNCHANGED <<ledger, token, PROP_MAP, entries, hkd_rate, success_count,
                   written, arg, ret>>

\* lines 297-302
FetchPrice ==
    /\ pc = "quote"
    /\ \E reply \in QuoteReplies :
       LET price == get_stock_price_sina(actual_code.val, reply)
       IN  IF ~price.some
           THEN SkipRow
           ELSE /\ raw_price' = price
                /\ UNCHANGED <<idx, actual_code>>
                /\ IF is_hk_code(actual_code.val)
                   THEN IF ~hkd_rate.some
                        THEN pc' = "rate" /\ UNCHANGED rate
                        ELSE pc' = "write" /\ rate' = hkd_rate
                   ELSE pc' = "write" /\ rate' = Some(UnitRate)
    /\ calls' = Append(calls, [svc |-> "quote", row |-> idx, key |-> lower(actual_code.val)])
    /\ UNCHANGED <<ledger, token, PROP_MAP, entries, hkd_rate, success_count,
                   visited, written, arg, ret>>

keep_rate_never(fetched) == None

\* line 301: if hkd_rate is None: hkd_rate = get_hkd_cny_rate()
keep_rate(fetched) == Some(fetched)

FetchRate ==
    /\ pc = "rate"
    /\ \E reply \in RateReplies :
          /\ hkd_rate' = keep_rate(get_hkd_cny_rate(reply))
          /\ rate' = Some(get_hkd_cny_rate(reply))
    /\ calls' = Append(calls, [svc |-> "rate", row |-> idx])
    /\ pc' = "write"
    /\ UNCHANGED <<ledger, token, PROP_MAP, entries, idx, success_count,
                   actual_code, raw_price, visited, written, arg, ret>>

\* lines 307-311 with update_notion_page's request
WritePage ==
    /\ pc = "write"
    /\ LET entry == entries[idx]
           request == update_notion_page(PROP_MAP, entry.page_id, raw_price.val,
                          code_to_write(entry, actual_code.val),
                          entry.buy_price, entry.quantity, rate.val)
       IN  \E outcome \in PatchOutcomes :
           /\ calls' = Append(calls,
                 [svc |-> "patch", row |-> idx, code |-> actual_code.val,
                  rate |-> rate.val, request |-> request])
           /\ written' = IF outcome = "ok" THEN written + 1 ELSE written
    /\ success_count' = success_count + 1
    /\ NextRow
    /\ UNCHANGED <<ledger, token, PROP_MAP, entries, hkd_rate, visited, arg, ret>>

\* line 313
Finish ==
    /\ pc = "row"
    /\ idx > Len(entries)
    /\ pc' = "done"
    /\ UNCHANGED <<ledger, token, PROP_MAP, entries, idx, hkd_rate, success_count,
                   actual_code, raw_price, rate, calls, visited, written, arg, ret>>

Next ==
    \/ VerifyDatabase
    \/ FetchEntries
    \/ ResolveCode
    \/ FetchPrice
    \/ FetchRate
    \/ WritePage
    \/ Finish

Spec == InitRun /\ [][Next]_vars

\* every request has a timeout and nothing else waits: a step that can be
\* taken is taken
FairSpec == Spec /\ WF_vars(Next)

(***************************************************************************)
(* Properties of a run.                                                    *)
(***************************************************************************)
CallsOf(svc) == {k \in 1..Len(calls) : calls[k].svc = svc}

\* C1: at the end of a run the success count is the number of rows whose
\* write the ledger store accepted.
SuccessCountIsWrites == pc = "done" => success_count = written

\* the column CODE is written to is among the properties of a request
HasCode(request) ==
    "CODE" \in DOMAIN PROP_MAP /\ PROP_MAP["CODE"] \in DOMAIN request.properties

\* C2: no suggestion request is sent for a row that has an identifier and no
\* write for such a row carries CODE; a write carries CODE only for a row
\* without an identifier, and then the one the resolver just returned for it.
WriteBackNonDestructive ==
    \A k \in 1..Len(calls) :
        /\ calls[k].svc = "suggest" => entries[calls[k].row].code = <<>>
        /\ (calls[k].svc = "patch" /\ HasCode(calls[k].request)) =>
              /\ entries[calls[k].row].code = <<>>
              /\ \E j \in 1..(k - 1) :
                    /\ calls[j].svc = "suggest"
                    /\ calls[j].row = calls[k].row
                    /\ calls[j].result.some
                    /\ calls[j].result.val =
                          calls[k].request.properties[PROP_MAP["CODE"]].rich_text

WriteBackWitness ==
    /\ pc = "done"
    /\ \E k \in CallsOf("patch") :
          entries[calls[k].row].code # <<>> /\ "CODE" \in DOMAIN PROP_MAP
    /\ \E k \in CallsOf("patch") : HasCode(calls[k].request)

\* C3: no request (suggestion, quote, write) is sent for a row whose
\* identifier and display name are both empty.
EmptyRowSkippedSilently ==
    \A k \in 1..Len(calls) :
        calls[k].row > 0 =>
            ~(entries[calls[k].row].code = <<>> /\ entries[calls[k].row].name = <<>>)

\* the rows taken so far are 1, 2, ... in this order, and all of them once
\* the run is over
RowsInOrder ==
    /\ visited = [k \in 1..Len(visited) |-> k]
    /\ pc = "done" => Len(visited) = Len(entries)

\* C4: whatever fails on a row, every row of the snapshot is taken exactly
\* once, in snapshot order, and the run ends.
EveryRowOnce == []RowsInOrder /\ <>(pc = "done")

EveryRowOnceWitness ==
    /\ pc = "done"
    /\ visited = <<1, 2>>
    /\ \E k \in CallsOf("suggest") : calls[k].row = 1 /\ ~calls[k].result.some
    /\ \E k \in CallsOf("patch") : calls[k].row = 2
    /\ written = 0

CrossBorder(code) ==
    Len(code) >= 2 /\ code[1] \in {"h", "H"} /\ code[2] \in {"k", "K"}

\* C5: at most one request goes to the rate service in a run; the writes of
\* cross-border rows all use one rate and those of domestic rows use 1.
RateFetchedOnce ==
    /\ Cardinality(CallsOf("rate")) <= 1
    /\ \A j, k \in CallsOf("patch") :
          (CrossBorder(calls[j].code) /\ CrossBorder(calls[k].code)) =>
              calls[j].rate = calls[k].rate
    /\ \A k \in CallsOf("patch") :
          /\ ~CrossBorder(calls[k].code) => calls[k].rate = 1000
          /\ "EXCHANGE_RATE" \in DOMAIN PROP_MAP =>
                calls[k].request.properties[PROP_MAP["EXCHANGE_RATE"]].number
                    = calls[k].rate

\* two cross-border rows written after the one rate request failed
RateFetchedOnceWitness ==
    /\ pc = "done"
    /\ Cardinality({k \in CallsOf("patch") : CrossBorder(calls[k].code)}) >= 2
    /\ \A k \in CallsOf("patch") : calls[k].rate = 915
    /\ Cardinality(CallsOf("rate")) = 1

\* a column of the schema is a PRICE synonym, case and padding aside
HasPriceColumn(schema) ==
    \E k \in 1..Len(schema), s \in 1..Len(mapping_rules[2].synonyms) :
        upper(strip(schema[k].key)) = upper(mapping_rules[2].synonyms[s])

\* C6: when no column of the schema matches a PRICE synonym, the only
\* request of the run is the schema read.
PriceIsGating ==
    ~HasPriceColumn(ledger.schema) => \A k \in 1..Len(calls) : calls[k].svc = "schema"

PriceIsGatingWitness ==
    /\ pc = "done"
    /\ token
    /\ ledger.schema = SchemaNoPrice
    /\ Len(ledger.pages) = 2
    /\ "NAME" \in DOMAIN PROP_MAP
    /\ ~HasPriceColumn(ledger.schema)

(***************************************************************************)
(* get_stock_price_sina on its own: every code and every answer of the     *)
(* quote service built from a record of n fields.                          *)
(***************************************************************************)
Idle ==
    /\ ledger = [schema |-> << >>, pages |-> << >>]
    /\ token = FALSE
    /\ PROP_MAP = << >>
    /\ entries = << >>
    /\ idx = 0
    /\ hkd_rate = None
    /\ success_count = 0
    /\ actual_code = None
    /\ raw_price = None
    /\ rate = None
    /\ calls = << >>
    /\ visited = << >>
    /\ written = 0

idle_vars == <<ledger, token, PROP_MAP, entries, idx, hkd_rate, success_count,
               actual_code, raw_price, rate, calls, visited, written>>

\* a field of a record as the service writes it, and the number it stands for
Field(text, num) == [text |-> text, num |-> num]

FieldChoices == {
    Field(<<"3","5","2">>, Some(352)),
    Field(<<" ","7">>, Some(7)),
    Field(<<"-","3">>, Some(0 - 3)),
    Field(<<>>, None),
    Field(<<"n","/","a">>, None) }

QuoteCodes == { <<"h","k","0","0","7","0","0">>, <<"H","K","0","0","7","0","0">>, <<"H","k","0","0","7","0","0">>, <<"s","h","6","0","0","0","0","0">>, <<"S","Z","0","0","0","0","0","1">>,
                <<"g","b","_","a","a","p","l">>, <<"k","h","k","0","1">>, <<"h">>, <<>> }

QuoteShapes == {"quoted", "bare", "open", "raised"}

QuoteInputs ==
    [code : QuoteCodes, shape : QuoteShapes, n : 1..MaxFields,
     f3 : FieldChoices, f6 : FieldChoices]

\* field k (from 0) of the record: 10 + k, but for the fields 3 and 6
field_text(inp, k) ==
    IF k = 3 THEN inp.f3.text
    ELSE IF k = 6 THEN inp.f6.text
    ELSE int_to_str(10 + k)

RECURSIVE join_with(_, _)
join_with(parts, sep) ==
    IF Len(parts) = 0 THEN <<>>
    ELSE IF Len(parts) = 1 THEN parts[1]
    ELSE parts[1] \o <<sep>> \o join_with(Tail(parts), sep)

quote_reply(inp) ==
    LET record == join_with([k \in 1..inp.n |-> field_text(inp, k - 1)], ",")
    IN  CASE inp.shape = "raised" -> Raised
          [] inp.shape = "quoted" ->
                Text(<<"v","a","r"," ","h","q","_","s","t","r","=">> \o <<QUOTE>> \o record \o <<QUOTE>> \o <<";">>)
          [] inp.shape = "open" -> Text(<<"v","a","r"," ","h","q","_","s","t","r","=">> \o <<QUOTE>> \o record)
          [] inp.shape = "bare" -> Text(<<"v","a","r"," ","h","q","_","s","t","r","=">> \o record \o <<";">>)

InitQuote ==
    /\ Idle
    /\ pc = "call"
    /\ arg \in QuoteInputs
    /\ ret = NoArg

CallQuote ==
    /\ pc = "call"
    /\ ret' = get_stock_price_sina(arg.code, quote_reply(arg))
    /\ pc' = "returned"
    /\ UNCHANGED <<idle_vars, arg>>

SpecQuote == InitQuote /\ [][CallQuote]_vars

\* the field the claim names for the code, when the record has it
quoted_field(inp) ==
    LET at == IF CrossBorder(inp.code) THEN 6 ELSE 3
    IN  IF inp.shape # "quoted" \/ at >= inp.n THEN None
        ELSE IF at = 6 THEN inp.f6.num ELSE inp.f3.num

SameValue(a, b) == a.some = b.some /\ (a.some => a.val = b.val)

\* C7: the price is field 6 of the quoted record for an identifier with the
\* cross-border prefix in any case, field 3 for any other identifier, and
\* absent without a quoted record, without that field or when the field is
\* no number.
QuoteFieldByMarket ==
    pc = "returned" => SameValue(ret, quoted_field(arg))

QuoteFieldByMarketWitness ==
    /\ pc = "returned"
    /\ arg.code = <<"H","K","0","0","7","0","0">>
    /\ arg.shape = "quoted"
    /\ arg.n = 7
    /\ arg.f3.num = Some(352)
    /\ ret = Some(7)

(***************************************************************************)
(* get_stock_code_by_name on its own: every name and every candidate list  *)
(* the suggestion service may answer with.                                 *)
(***************************************************************************)
Cand(name, code, parts) == [name |-> name, code |-> code, parts |-> parts]

\* parts: how many of its comma separated fields the answer holds
CandChoices == {
    Cand(<<"T","e","n","c","e","n","t">>, <<"h","k","0","0","7","0","0">>, 5),
    Cand(<<"T","e","n","c","e","n","t"," ","M","u","s","i","c">>, <<"s","h","6","0","0","0","0","1">>, 5),
    Cand(<<"H","a","n","g"," ","S","e","n","g"," ","B","a","n","k">>, <<"H","K","0","0","0","1","1">>, 4),
    Cand(<<"B","a","n","k"," ","A","D","R">>, <<"g","b","_","b","k">>, 5),
    Cand(<<"T","e","n","c","e","n","t"," ","F","u","n","d">>, <<>>, 5),
    Cand(<<"B","a","n","k">>, <<"s","z","0","0","0","0","0","1">>, 3) }

ResolveNames == { <<"T","e","n","c","e","n","t">>, <<"T","e","n","c","e","n","t","H">>, <<"T","e","n","c","e","n","t"," ","h">>, <<"B","a","n","k">>, <<"B","a","n","k","A">>,
                  <<"H","a","n","g"," ","S","e","n","g"," ","B","a","n","k">>, <<"M","u","s","i","c">>, <<>> }

CandLists == UNION {[1..n -> CandChoices] : n \in 0..MaxCands}

ResolveInputs == [name : ResolveNames, cands : CandLists, raised : BOOLEAN]

\* name,type,number,identifier,name cut to its first c.parts fields
item_text(c) ==
    join_with(SubSeq(<<c.name, <<"1","1">>, <<"0","0","0","0","0","0">>, c.code, c.name>>, 1, c.parts), ",")

suggest_reply(inp) ==
    IF inp.raised THEN Raised
    ELSE Text(<<"v","a","r"," ","s","u","g","g","e","s","t","v","a","l","u","e","=">> \o <<QUOTE>>
              \o join_with([k \in 1..Len(inp.cands) |-> item_text(inp.cands[k])], ";")
              \o <<QUOTE>> \o <<";">>)

InitResolve ==
    /\ Idle
    /\ pc = "call"
    /\ arg \in ResolveInputs
    /\ ret = NoArg

\* the stages of get_stock_code_by_name are kept beside its result
CallResolve ==
    /\ pc = "call"
    /\ LET reply == suggest_reply(arg)
           match == IF reply.ok THEN re_search_quoted(reply.text) ELSE None
           results == IF match.some THEN parse_items(split(match.val, ";")) ELSE <<>>
       IN  ret' = [code |-> get_stock_code_by_name(arg.name, reply),
                   key |-> clean_name_of(arg.name),
                   results |-> results,
                   filtered |-> IF results = <<>> THEN <<>>
                                ELSE filter_results(arg.name, results)]
    /\ pc' = "returned"
    /\ UNCHANGED <<idle_vars, arg>>

SpecResolve == InitResolve /\ [][CallResolve]_vars

Domestic(code) ==
    /\ Len(code) >= 2
    /\ code[1] \in {"s", "S"}
    /\ code[2] \in {"h", "H", "z", "Z"}

\* the candidates of the answer that have an identifier field
Listed(inp) ==
    LET Full(c) == c.parts > 3
        full == SelectSeq(inp.cands, Full)
    IN  [k \in 1..Len(full) |-> [name |-> full[k].name, code |-> full[k].code]]

LastChar(name) == IF name = <<>> THEN "" ELSE name[Len(name)]

\* the filter of the claim: the hint is the last character of the name
FilterByLastChar(name, results) ==
    LET KeepIt(r) ==
            IF LastChar(name) \in {"H", "h"} THEN CrossBorder(r.code)
            ELSE IF LastChar(name) \in {"A", "a"} THEN Domestic(r.code)
            ELSE CrossBorder(r.code) \/ Domestic(r.code)
        kept == SelectSeq(results, KeepIt)
    IN  IF kept = <<>> THEN results ELSE kept

\* C8: the market hint is the last character of the name only: H keeps the
\* cross-border candidates, A the domestic ones, any other ending keeps every
\* candidate with a recognised prefix.
HintIsTrailingOnly ==
    (pc = "returned" /\ ~arg.raised /\ Listed(arg) # <<>>) =>
        ret.filtered = FilterByLastChar(arg.name, Listed(arg))

\* C10: the identifier returned is that of the first candidate of the
\* filtered set whose display name contains the stripped query, and that of
\* the first candidate of the set when none contains it.
FirstMatchPreferred ==
    (pc = "returned" /\ ret.filtered # <<>>) =>
        LET hits == {k \in 1..Len(ret.filtered) :
                        contains(ret.filtered[k].name, ret.key)}
            k0 == IF hits = {} THEN 1 ELSE Min(hits)
        IN  ret.code.some /\ ret.code.val = ret.filtered[k0].code

(***************************************************************************)
(* update_notion_page on its own: every price, buy price, quantity and     *)
(* rate, with ROI_DETAILS mapped and not.                                  *)
(***************************************************************************)
RoiPrices == {0, 8, 10, 12, 5010}
RoiBuyPrices == {0, 3, 10}
RoiQuantities == {0, 4, 100}
RoiRates == {UnitRate, FallbackRate, 920}

RoiInputs ==
    [display_price : RoiPrices, buy_price : RoiBuyPrices,
     quantity : RoiQuantities, rate : RoiRates, mapped : BOOLEAN]

roi_prop_map(mapped) ==
    fuzzy_map_properties(db_props_of(IF mapped THEN SchemaFull ELSE SchemaBare))

InitRoi ==
    /\ Idle
    /\ pc = "call"
    /\ arg \in RoiInputs
    /\ ret = NoArg

CallUpdate ==
    /\ pc = "call"
    /\ ret' = update_notion_page(roi_prop_map(arg.mapped), 1, arg.display_price,
                                 None, arg.buy_price, arg.quantity, arg.rate)
    /\ pc' = "returned"
    /\ UNCHANGED <<idle_vars, arg>>

SpecRoi == InitRoi /\ [][CallUpdate]_vars

RoiColumn == <<"R","O","I"," ","D","e","t","a","i","l","s">>
HasRoi(request) == RoiColumn \in DOMAIN request.properties
RoiOf(request) == request.properties[RoiColumn].rich_text

\* the text starts with '+'
PercentHasPlus(text) == text[1] = "+"

\* the character after the opening parenthesis is '+'
TotalHasPlus(text) ==
    \E k \in 1..(Len(text) - 1) : text[k] = "(" /\ text[k + 1] = "+"

\* when there is a summary and when there is none
RoiPresence ==
    HasRoi(ret) <=> (arg.mapped /\ arg.buy_price > 0)

\* C9 as stated: each of the two numbers has '+' exactly when that number is
\* not negative, the colour is the positive one exactly when the profit is
\* not negative, and there is no summary when buy_price is 0 or ROI_DETAILS
\* is not mapped.
RoiSignPerNumber ==
    pc = "returned" =>
        /\ RoiPresence
        /\ HasRoi(ret) =>
            LET profit == arg.display_price - arg.buy_price
            IN  /\ PercentHasPlus(RoiOf(ret).content) <=> profit * 100 >= 0
                /\ TotalHasPlus(RoiOf(ret).content)
                      <=> profit * arg.quantity * arg.rate >= 0
                /\ RoiOf(ret).color = "red" <=> profit >= 0

\* C9 amended: both numbers have '+' exactly when the profit per unit,
\* raw_price - buy_price, is not negative, whatever the sign of the total;
\* the colour and the absence of the summary are as stated.
RoiSignFromUnitProfit ==
    pc = "returned" =>
        /\ RoiPresence
        /\ HasRoi(ret) =>
            LET profit == arg.display_price - arg.buy_price
            IN  /\ PercentHasPlus(RoiOf(ret).content) <=> profit >= 0
                /\ TotalHasPlus(RoiOf(ret).content) <=> profit >= 0
                /\ RoiOf(ret).color = "red" <=> profit >= 0

RoiSignWitness ==
    /\ pc = "returned"
    /\ arg.display_price = 12
    /\ arg.buy_price = 10
    /\ arg.quantity = 100
    /\ arg.rate = 1000
    /\ HasRoi(ret)
    /\ RoiOf(ret) = [content |-> <<"+","2","0",".","0","0","%"," ","(","+","2","0","0",".","0","0"," ","C","N","Y",")">>, color |-> "red"]

====
